---------------------------- MODULE Spec2Model ----------------------------
(***************************************************************************)
(* A model of http_server.py: a single-threaded HTTP/1.1 server that       *)
(* accepts one connection at a time, buffers the request until the header  *)
(* terminator, parses the request line, resolves the path under webroot    *)
(* and answers 200, 404 or 405.                                            *)
(*                                                                         *)
(* Data.  bytes objects are sequences of integers 0..255 and str objects   *)
(* are sequences of Unicode code points; bytes.decode('utf8') and          *)
(* str.encode('utf-8') are modelled by Utf8Decode and Utf8Encode.  Every   *)
(* literal is written as the tuple of its codes, with the Python literal   *)
(* in the comment above it.                                                *)
(*                                                                         *)
(* Environment.  The peer, the filesystem and the operator are the         *)
(* environment: the peer's bytes arrive in chunks of any size, the         *)
(* filesystem may change at any moment, recv and sendall may fail, and a   *)
(* KeyboardInterrupt may be delivered while the server is in accept, recv, *)
(* the request handling, sendall or traceback.print_exc().  conn.close()   *)
(* is one step.  The filesystem has no symbolic links, and the calls of    *)
(* one request (exists, isdir, listdir, guess_type, open, read) see one    *)
(* filesystem state.                                                       *)
(***************************************************************************)
EXTENDS Integers, Sequences, FiniteSets, TLC

----------------------------------------------------------------------------
(* Bounds of the model *)

\* connections accepted in one run of server()
MaxConns == 2

\* recv calls that return b'' that are followed in one connection
MaxEmptyReads == 2

\* bytes that a failing sendall has written before it raises
MaxPartialSend == 2

\* the longest body handed to a response builder on its own
MaxBodyLen == 4

\* the longest mimetype handed to response_ok on its own
MaxMimeLen == 2

----------------------------------------------------------------------------
(* Literals of the program *)

\* conn.recv(1024)
RecvMax == 1024

\* "\r\n"
CRLF == <<13, 10>>

\* '\r\n\r\n'
HeaderTerminator == <<13, 10, 13, 10>>

\* " "
SP == <<32>>

\* "GET"
GET == <<71, 69, 84>>

\* "/"
SLASH == <<47>>

\* "."
DOT == <<46>>

\* ".."
DOTDOT == <<46, 46>>

\* b"HTTP/1.1 200 OK"
OkStatusLine == <<72, 84, 84, 80, 47, 49, 46, 49, 32, 50, 48, 48, 32, 79, 75>>

\* b"Content-Type: "
ContentTypePrefix == <<67, 111, 110, 116, 101, 110, 116, 45, 84, 121, 112, 101, 58, 32>>

\* b"HTTP/1.1 405 Method Not Allowed"
MethodNotAllowedStatusLine == <<72, 84, 84, 80, 47, 49, 46, 49, 32, 52, 48, 53, 32, 77, 101, 116, 104, 111, 100, 32, 78, 111, 116, 32, 65, 108, 108, 111, 119, 101, 100>>

\* b"You can't do that on this server!"
MethodNotAllowedText == <<89, 111, 117, 32, 99, 97, 110, 39, 116, 32, 100, 111, 32, 116, 104, 97, 116, 32, 111, 110, 32, 116, 104, 105, 115, 32, 115, 101, 114, 118, 101, 114, 33>>

\* b"HTTP/1.1 404 Page Not Found"
NotFoundStatusLine == <<72, 84, 84, 80, 47, 49, 46, 49, 32, 52, 48, 52, 32, 80, 97, 103, 101, 32, 78, 111, 116, 32, 70, 111, 117, 110, 100>>

\* b"Sorry, the page that you're requesting does not exist."
NotFoundText == <<83, 111, 114, 114, 121, 44, 32, 116, 104, 101, 32, 112, 97, 103, 101, 32, 116, 104, 97, 116, 32, 121, 111, 117, 39, 114, 101, 32, 114, 101, 113, 117, 101, 115, 116, 105, 110, 103, 32, 100, 111, 101, 115, 32, 110, 111, 116, 32, 101, 120, 105, 115, 116, 46>>

\* b"text/plain"
TextPlain == <<116, 101, 120, 116, 47, 112, 108, 97, 105, 110>>

----------------------------------------------------------------------------
(* Sequence helpers: str.split, str.join, the `in` operator *)

Min(a, b) == IF a < b THEN a ELSE b

\* s[i:i+len(sub)] == sub
MatchAt(s, sub, i) ==
    /\ i >= 1
    /\ i + Len(sub) - 1 <= Len(s)
    /\ SubSeq(s, i, i + Len(sub) - 1) = sub

\* s.find(sub) + 1: the first position at which sub occurs in s, 0 if none
Find(s, sub) ==
    LET hits == {i \in 1..Len(s) : MatchAt(s, sub, i)}
    IN  IF hits = {} THEN 0 ELSE CHOOSE i \in hits : \A j \in hits : i <= j

\* sub in s
Contains(s, sub) == Find(s, sub) # 0

\* s.split(sep): the pieces between the occurrences of sep, empty ones kept
RECURSIVE Split(_, _)
Split(s, sep) ==
    LET i == Find(s, sep)
    IN  IF i = 0
        THEN <<s>>
        ELSE <<SubSeq(s, 1, i - 1)>> \o Split(SubSeq(s, i + Len(sep), Len(s)), sep)

\* sep.join(parts)
RECURSIVE Join(_, _)
Join(sep, parts) ==
    IF parts = <<>> THEN <<>>
    ELSE IF Len(parts) = 1 THEN parts[1]
    ELSE parts[1] \o sep \o Join(sep, Tail(parts))

----------------------------------------------------------------------------
(* UTF-8 *)

\* the number of bytes of the sequence a lead byte starts, 0 for no lead byte
Utf8Width(b) ==
    IF b < 128 THEN 1
    ELSE IF b >= 194 /\ b <= 223 THEN 2
    ELSE IF b >= 224 /\ b <= 239 THEN 3
    ELSE IF b >= 240 /\ b <= 244 THEN 4
    ELSE 0

\* the range of the byte that follows lead byte b
Utf8SecondOk(b, c) ==
    IF b = 224 THEN c >= 160 /\ c <= 191
    ELSE IF b = 237 THEN c >= 128 /\ c <= 159
    ELSE IF b = 240 THEN c >= 144 /\ c <= 191
    ELSE IF b = 244 THEN c >= 128 /\ c <= 143
    ELSE c >= 128 /\ c <= 191

Utf8CodePoint(s) ==
    IF Len(s) = 1 THEN s[1]
    ELSE IF Len(s) = 2 THEN (s[1] - 192) * 64 + (s[2] - 128)
    ELSE IF Len(s) = 3 THEN (s[1] - 224) * 4096 + (s[2] - 128) * 64 + (s[3] - 128)
    ELSE (s[1] - 240) * 262144 + (s[2] - 128) * 4096 + (s[3] - 128) * 64 + (s[4] - 128)

\* data.decode('utf8'), strict: ok is FALSE where Python raises UnicodeDecodeError
RECURSIVE Utf8Decode(_)
Utf8Decode(data) ==
    IF data = <<>> THEN [ok |-> TRUE, text |-> <<>>]
    ELSE LET w == Utf8Width(data[1])
             wellFormed ==
                 /\ w > 0
                 /\ Len(data) >= w
                 /\ w >= 2 => Utf8SecondOk(data[1], data[2])
                 /\ \A k \in 3..w : data[k] >= 128 /\ data[k] <= 191
         IN  IF ~wellFormed THEN [ok |-> FALSE, text |-> <<>>]
             ELSE LET rest == Utf8Decode(SubSeq(data, w + 1, Len(data)))
                  IN  IF rest.ok
                      THEN [ok |-> TRUE,
                            text |-> <<Utf8CodePoint(SubSeq(data, 1, w))>> \o rest.text]
                      ELSE rest

Utf8EncodeChar(c) ==
    IF c < 128 THEN <<c>>
    ELSE IF c < 2048 THEN <<192 + (c \div 64), 128 + (c % 64)>>
    ELSE IF c < 65536
         THEN <<224 + (c \div 4096), 128 + ((c \div 64) % 64), 128 + (c % 64)>>
    ELSE <<240 + (c \div 262144), 128 + ((c \div 4096) % 64),
           128 + ((c \div 64) % 64), 128 + (c % 64)>>

\* text.encode("utf-8"); the model has no lone surrogates, which Python rejects
RECURSIVE Utf8Encode(_)
Utf8Encode(text) ==
    IF text = <<>> THEN <<>>
    ELSE Utf8EncodeChar(text[1]) \o Utf8Encode(Tail(text))

----------------------------------------------------------------------------
(* Response builders *)

\* response_ok without the empty element between the header and the body
response_ok_NoBlankLine(body, mimetype) ==
    Join(Utf8Encode(CRLF),
         <<OkStatusLine, ContentTypePrefix \o mimetype, body>>)

\* response_ok as its docstring pictures it, a "\r\n" after the body
response_ok_TrailingCRLF(body, mimetype) ==
    Join(Utf8Encode(CRLF),
         <<OkStatusLine, ContentTypePrefix \o mimetype, <<>>, body, <<>>>>)

\* response_ok(body, mimetype)
response_ok(body, mimetype) ==
    Join(Utf8Encode(CRLF),
         <<OkStatusLine, ContentTypePrefix \o mimetype, <<>>, body>>)

\* response_method_not_allowed()
response_method_not_allowed ==
    Join(Utf8Encode(CRLF), <<MethodNotAllowedStatusLine, <<>>, MethodNotAllowedText>>)

\* response_not_found()
response_not_found ==
    Join(Utf8Encode(CRLF), <<NotFoundStatusLine, <<>>, NotFoundText>>)

----------------------------------------------------------------------------
(* Request parser *)

\* request.split("\r\n")[0].split(" ")
RequestLineTokens(request) == Split(Split(request, CRLF)[1], SP)

\* parse_request(request) with the method test left out
parse_request_AnyMethod(request) ==
    LET tokens == RequestLineTokens(request)
    IN  IF Len(tokens) # 3
        THEN [exc |-> "ValueError", path |-> <<>>]
        ELSE [exc |-> "none", path |-> tokens[2]]

\* parse_request(request): the unpacking of anything but three tokens raises
\* ValueError, a method other than "GET" raises NotImplementedError
parse_request(request) ==
    LET tokens == RequestLineTokens(request)
    IN  IF Len(tokens) # 3
        THEN [exc |-> "ValueError", path |-> <<>>]
        ELSE IF tokens[1] # GET
        THEN [exc |-> "NotImplementedError", path |-> <<>>]
        ELSE [exc |-> "none", path |-> tokens[2]]

----------------------------------------------------------------------------
(* The filesystem: a function from absolute paths, each the sequence of its *)
(* component names, to entries.  names is a directory's entries in the      *)
(* order os.listdir enumerates them; readable is the permission that open   *)
(* and os.listdir need.                                                     *)

DirEntry(names, readable) ==
    [kind |-> "dir", names |-> names, content |-> <<>>, readable |-> readable]

FileEntry(content, readable) ==
    [kind |-> "file", names |-> <<>>, content |-> content, readable |-> readable]

\* os.path.dirname(os.path.abspath(__file__)): the directory of http_server.py
SourceDir == <<47, 97, 112, 112>>

\* directory = os.path.dirname(os.path.abspath(__file__)) + "/webroot"
Directory == SourceDir \o <<47, 119, 101, 98, 114, 111, 111, 116>>

\* the served root as a filesystem path
WebrootKey == <<<<97, 112, 112>>, <<119, 101, 98, 114, 111, 111, 116>>>>

\* the path resolution of the operating system, one component at a time: every
\* component is looked up in a directory, "" and "." stay, ".." goes up
RECURSIVE Walk(_, _, _)
Walk(fsys, cur, comps) ==
    IF comps = <<>> THEN [found |-> TRUE, key |-> cur]
    ELSE IF fsys[cur].kind # "dir" THEN [found |-> FALSE, key |-> <<>>]
    ELSE LET c == Head(comps)
             next == IF c = <<>> \/ c = DOT THEN cur
                     ELSE IF c = DOTDOT
                     THEN (IF cur = <<>> THEN cur ELSE SubSeq(cur, 1, Len(cur) - 1))
                     ELSE Append(cur, c)
         IN  IF next \notin DOMAIN fsys
             THEN [found |-> FALSE, key |-> <<>>]
             ELSE Walk(fsys, next, Tail(comps))

\* the entry an absolute path string names
Lookup(fsys, full_path) == Walk(fsys, <<>>, Split(full_path, SLASH))

\* os.path.exists(full_path)
exists(fsys, full_path) == Lookup(fsys, full_path).found

\* os.path.isdir(full_path)
isdir(fsys, full_path) ==
    LET r == Lookup(fsys, full_path)
    IN  r.found /\ fsys[r.key].kind = "dir"

\* the last position at which sub occurs in s, 0 if none
FindLast(s, sub) ==
    LET hits == {i \in 1..Len(s) : MatchAt(s, sub, i)}
    IN  IF hits = {} THEN 0 ELSE CHOOSE i \in hits : \A j \in hits : i >= j

\* posixpath.splitext(p)[1]: from the last dot of the last component, unless
\* only dots precede it
splitext(p) ==
    LET comps == Split(p, SLASH)
        base == comps[Len(comps)]
        d == FindLast(base, DOT)
    IN  IF d = 0 \/ \A k \in 1..(d - 1) : <<base[k]>> = DOT
        THEN <<>>
        ELSE SubSeq(base, d, Len(base))

\* mimetypes.types_map, the extensions of the model's files
types_map(ext) ==
    IF ext = <<46, 104, 116, 109, 108>> THEN [known |-> TRUE, type |-> <<116, 101, 120, 116, 47, 104, 116, 109, 108>>]  \* ".html", "text/html"
    ELSE IF ext = <<46, 112, 110, 103>> THEN [known |-> TRUE, type |-> <<105, 109, 97, 103, 101, 47, 112, 110, 103>>]  \* ".png", "image/png"
    ELSE IF ext = <<46, 116, 120, 116>> THEN [known |-> TRUE, type |-> <<116, 101, 120, 116, 47, 112, 108, 97, 105, 110>>]  \* ".txt", "text/plain"
    ELSE IF ext = <<46, 112, 121>> THEN [known |-> TRUE, type |-> <<116, 101, 120, 116, 47, 120, 45, 112, 121, 116, 104, 111, 110>>]  \* ".py", "text/x-python"
    ELSE [known |-> FALSE, type |-> <<>>]

\* mimetypes.guess_type(full_path)[0]: known is FALSE where it is None
guess_type(full_path) == types_map(splitext(full_path))

\* the listing with the names joined by "\n"
listing_JoinedByLf(names) == Utf8Encode(Join(<<10>>, names))

\* "\r\n".join(os.listdir(full_path)).encode("utf-8")
listing(names) == Utf8Encode(Join(CRLF, names))

\* response_path(path) with the existence test left out
response_path_NoExistsCheck(fsys, path) ==
    LET full_path == Directory \o path
        r == Lookup(fsys, full_path)
        mt == guess_type(full_path)
    IN  IF r.found /\ fsys[r.key].kind = "dir"
        THEN [exc |-> "none", content |-> listing(fsys[r.key].names),
              mime_type |-> TextPlain, read |-> {r.key}]
        ELSE IF ~mt.known
        THEN [exc |-> "AttributeError", content |-> <<>>, mime_type |-> <<>>, read |-> {}]
        ELSE [exc |-> "none", content |-> IF r.found THEN fsys[r.key].content ELSE <<>>,
              mime_type |-> Utf8Encode(mt.type), read |-> {r.key}]

\* response_path(path): content and mime_type, or the exception raised; read
\* is the set of entries whose content or listing was read
response_path(fsys, path) ==
    LET full_path == Directory \o path
        r == Lookup(fsys, full_path)
        mt == guess_type(full_path)
        raise(e) == [exc |-> e, content |-> <<>>, mime_type |-> <<>>, read |-> {}]
    IN  IF ~exists(fsys, full_path) THEN raise("NameError")
        ELSE IF isdir(fsys, full_path)
        THEN IF ~fsys[r.key].readable THEN raise("PermissionError")
             ELSE [exc |-> "none",
                   content |-> listing(fsys[r.key].names),
                   mime_type |-> TextPlain,
                   read |-> {r.key}]
        ELSE IF ~mt.known THEN raise("AttributeError")
        ELSE IF ~fsys[r.key].readable THEN raise("PermissionError")
        ELSE [exc |-> "none",
              content |-> fsys[r.key].content,
              mime_type |-> Utf8Encode(mt.type),
              read |-> {r.key}]

----------------------------------------------------------------------------
(* The filesystems and the requests of the model *)

\* the source directory holds http_server.py and webroot; webroot holds
\* a.html and b.png
FsTwoFiles ==
    (<<>> :> DirEntry(<<<<97, 112, 112>>>>, TRUE))  \* "app"
    @@ (<<<<97, 112, 112>>>> :> DirEntry(<<<<104, 116, 116, 112, 95, 115, 101, 114, 118, 101, 114, 46, 112, 121>>, <<119, 101, 98, 114, 111, 111, 116>>>>, TRUE))  \* "app", "http_server.py", "webroot"
    @@ (<<<<97, 112, 112>>, <<104, 116, 116, 112, 95, 115, 101, 114, 118, 101, 114, 46, 112, 121>>>> :> FileEntry(<<105, 109, 112, 111, 114, 116, 32, 115, 111, 99, 107, 101, 116, 10>>, TRUE))  \* "app", "http_server.py", b"import socket\n"
    @@ (WebrootKey :> DirEntry(<<<<97, 46, 104, 116, 109, 108>>, <<98, 46, 112, 110, 103>>>>, TRUE))  \* "a.html", "b.png"
    @@ (Append(WebrootKey, <<97, 46, 104, 116, 109, 108>>) :> FileEntry(<<60, 104, 49, 62, 72, 105, 60, 47, 104, 49, 62, 13, 10, 13, 10, 98, 121, 101>>, TRUE))  \* "a.html", b"<h1>Hi</h1>\r\n\r\nbye"
    @@ (Append(WebrootKey, <<98, 46, 112, 110, 103>>) :> FileEntry(<<137, 80, 78, 71, 255>>, TRUE))  \* "b.png"

\* webroot holds a directory, a file of unknown type, a file that may not be
\* read and a.html; beside webroot lie the directories secret and webroot2
FsMixed ==
    (<<>> :> DirEntry(<<<<97, 112, 112>>>>, TRUE))  \* "app"
    @@ (<<<<97, 112, 112>>>> :> DirEntry(<<<<119, 101, 98, 114, 111, 111, 116, 50>>, <<115, 101, 99, 114, 101, 116>>, <<104, 116, 116, 112, 95, 115, 101, 114, 118, 101, 114, 46, 112, 121>>,  \* "app", "webroot2", "secret", "http_server.py"
                                     <<119, 101, 98, 114, 111, 111, 116>>>>, TRUE))  \* "webroot"
    @@ (<<<<97, 112, 112>>, <<104, 116, 116, 112, 95, 115, 101, 114, 118, 101, 114, 46, 112, 121>>>> :> FileEntry(<<105, 109, 112, 111, 114, 116, 32, 115, 111, 99, 107, 101, 116, 10>>, TRUE))  \* "app", "http_server.py", b"import socket\n"
    @@ (<<<<97, 112, 112>>, <<115, 101, 99, 114, 101, 116>>>> :> DirEntry(<<<<107, 101, 121, 46, 116, 120, 116>>>>, TRUE))  \* "app", "secret", "key.txt"
    @@ (<<<<97, 112, 112>>, <<115, 101, 99, 114, 101, 116>>, <<107, 101, 121, 46, 116, 120, 116>>>> :> FileEntry(<<104, 117, 110, 116, 101, 114, 50>>, TRUE))  \* "app", "secret", "key.txt", b"hunter2"
    @@ (<<<<97, 112, 112>>, <<119, 101, 98, 114, 111, 111, 116, 50>>>> :> DirEntry(<<>>, TRUE))  \* "app", "webroot2"
    @@ (WebrootKey :> DirEntry(<<<<108, 111, 99, 107, 101, 100, 46, 116, 120, 116>>, <<105, 109, 97, 103, 101, 115>>, <<100, 97, 116, 97, 46, 122, 122, 122>>,  \* "locked.txt", "images", "data.zzz"
                                  <<97, 46, 104, 116, 109, 108>>>>, TRUE))  \* "a.html"
    @@ (Append(WebrootKey, <<108, 111, 99, 107, 101, 100, 46, 116, 120, 116>>) :> FileEntry(<<112, 114, 105, 118, 97, 116, 101>>, FALSE))  \* "locked.txt", b"private"
    @@ (Append(WebrootKey, <<105, 109, 97, 103, 101, 115>>) :> DirEntry(<<>>, TRUE))  \* "images"
    @@ (Append(WebrootKey, <<100, 97, 116, 97, 46, 122, 122, 122>>) :> FileEntry(<<122, 122>>, TRUE))  \* "data.zzz", b"zz"
    @@ (Append(WebrootKey, <<97, 46, 104, 116, 109, 108>>) :> FileEntry(<<>>, TRUE))  \* "a.html", b""

\* webroot holds one directory that may not be listed
FsLockedDir ==
    (<<>> :> DirEntry(<<<<97, 112, 112>>>>, TRUE))  \* "app"
    @@ (<<<<97, 112, 112>>>> :> DirEntry(<<<<119, 101, 98, 114, 111, 111, 116>>, <<104, 116, 116, 112, 95, 115, 101, 114, 118, 101, 114, 46, 112, 121>>>>, TRUE))  \* "app", "webroot", "http_server.py"
    @@ (<<<<97, 112, 112>>, <<104, 116, 116, 112, 95, 115, 101, 114, 118, 101, 114, 46, 112, 121>>>> :> FileEntry(<<105, 109, 112, 111, 114, 116, 32, 115, 111, 99, 107, 101, 116, 10>>, TRUE))  \* "app", "http_server.py", b"import socket\n"
    @@ (WebrootKey :> DirEntry(<<<<105, 109, 97, 103, 101, 115>>>>, TRUE))  \* "images"
    @@ (Append(WebrootKey, <<105, 109, 97, 103, 101, 115>>) :> DirEntry(<<<<99, 46, 112, 110, 103>>>>, FALSE))  \* "images", "c.png"
    @@ (Append(WebrootKey, <<105, 109, 97, 103, 101, 115>>) \o <<<<99, 46, 112, 110, 103>>>> :> FileEntry(<<137, 80>>, TRUE))  \* "images", "c.png"

FileSystems == {FsTwoFiles, FsMixed, FsLockedDir}

\* every directory lists exactly its children, and every entry but the root is
\* listed by its parent
FsWellFormed(fsys) ==
    /\ <<>> \in DOMAIN fsys
    /\ \A k \in DOMAIN fsys :
          /\ fsys[k].kind = "dir" =>
                /\ \A i \in 1..Len(fsys[k].names) : Append(k, fsys[k].names[i]) \in DOMAIN fsys
                /\ \A i, j \in 1..Len(fsys[k].names) :
                      fsys[k].names[i] = fsys[k].names[j] => i = j
          /\ k # <<>> =>
                LET parent == SubSeq(k, 1, Len(k) - 1)
                IN  /\ parent \in DOMAIN fsys
                    /\ fsys[parent].kind = "dir"
                    /\ \E i \in 1..Len(fsys[parent].names) : fsys[parent].names[i] = k[Len(k)]

\* the byte streams a peer sends
Requests == {
    <<71, 69, 84, 32, 47, 32, 72, 84, 84, 80, 47, 49, 46, 49, 13, 10, 13, 10>>,  \* b"GET / HTTP/1.1\r\n\r\n"
    <<71, 69, 84, 32, 47, 97, 46, 104, 116, 109, 108, 32, 72, 84, 84, 80, 47, 49, 46, 49, 13, 10, 13, 10>>,  \* b"GET /a.html HTTP/1.1\r\n\r\n"
    <<71, 69, 84, 32, 47, 98, 46, 112, 110, 103, 32, 72, 84, 84, 80, 47, 49, 46, 49, 13, 10, 13, 10>>,  \* b"GET /b.png HTTP/1.1\r\n\r\n"
    <<71, 69, 84, 32, 47, 109, 105, 115, 115, 105, 110, 103, 46, 116, 120, 116, 32, 72, 84, 84, 80, 47, 49, 46, 49, 13, 10, 13, 10>>,  \* b"GET /missing.txt HTTP/1.1\r\n\r\n"
    <<71, 69, 84, 32, 47, 46, 46, 47, 104, 116, 116, 112, 95, 115, 101, 114, 118, 101, 114, 46, 112, 121, 32, 72, 84, 84, 80, 47, 49, 46, 49, 13, 10, 13, 10>>,  \* b"GET /../http_server.py HTTP/1.1\r\n\r\n"
    <<71, 69, 84, 32, 47, 46, 46, 47, 115, 101, 99, 114, 101, 116, 32, 72, 84, 84, 80, 47, 49, 46, 49, 13, 10, 13, 10>>,  \* b"GET /../secret HTTP/1.1\r\n\r\n"
    <<71, 69, 84, 32, 50, 32, 72, 84, 84, 80, 47, 49, 46, 49, 13, 10, 13, 10>>,  \* b"GET 2 HTTP/1.1\r\n\r\n"
    <<71, 69, 84, 32, 47, 100, 97, 116, 97, 46, 122, 122, 122, 32, 72, 84, 84, 80, 47, 49, 46, 49, 13, 10, 13, 10>>,  \* b"GET /data.zzz HTTP/1.1\r\n\r\n"
    <<71, 69, 84, 32, 47, 108, 111, 99, 107, 101, 100, 46, 116, 120, 116, 32, 72, 84, 84, 80, 47, 49, 46, 49, 13, 10, 13, 10>>,  \* b"GET /locked.txt HTTP/1.1\r\n\r\n"
    <<71, 69, 84, 32, 47, 105, 109, 97, 103, 101, 115, 32, 72, 84, 84, 80, 47, 49, 46, 49, 13, 10, 13, 10>>,  \* b"GET /images HTTP/1.1\r\n\r\n"
    <<80, 79, 83, 84, 32, 47, 32, 72, 84, 84, 80, 47, 49, 46, 49, 13, 10, 13, 10>>,  \* b"POST / HTTP/1.1\r\n\r\n"
    <<80, 79, 83, 84, 32, 47, 109, 105, 115, 115, 105, 110, 103, 46, 116, 120, 116, 32, 72, 84, 84, 80, 47, 49, 46, 49, 13, 10, 13, 10>>,  \* b"POST /missing.txt HTTP/1.1\r\n\r\n"
    <<103, 101, 116, 32, 47, 32, 72, 84, 84, 80, 47, 49, 46, 49, 13, 10, 13, 10>>,  \* b"get / HTTP/1.1\r\n\r\n"
    <<71, 69, 84, 32, 47, 13, 10, 13, 10>>,  \* b"GET /\r\n\r\n"
    <<71, 69, 84, 32, 47, 32, 72, 84, 84, 80, 47, 49, 46, 49, 32, 120, 13, 10, 13, 10>>,  \* b"GET / HTTP/1.1 x\r\n\r\n"
    <<71, 69, 84, 32, 32, 47, 32, 72, 84, 84, 80, 47, 49, 46, 49, 13, 10, 13, 10>>,  \* b"GET  / HTTP/1.1\r\n\r\n"
    <<13, 10, 13, 10>>,  \* b"\r\n\r\n"
    <<71, 69, 84, 32, 47, 97, 46, 104, 116, 109, 108, 32, 72, 84, 84, 80, 47, 49, 46, 49, 13, 10, 72, 111, 115, 116, 58, 32, 120, 13, 10, 13, 10, 98, 111, 100, 121>>,  \* b"GET /a.html HTTP/1.1\r\nHost: x\r\n\r\nbody"
    <<71, 69, 84, 32, 47, 32, 72, 84, 84, 80, 47, 49, 46, 49, 13, 10>>,  \* b"GET / HTTP/1.1\r\n"
    <<71, 69, 84, 32, 47, 195, 169, 32, 72, 84, 84, 80, 47, 49, 46, 49, 13, 10, 13, 10>>,  \* b"GET /\u00e9 HTTP/1.1\r\n\r\n"
    <<80, 79, 83, 84, 32, 47, 46, 46, 47, 104, 116, 116, 112, 95, 115, 101, 114, 118, 101, 114, 46, 112, 121, 32, 72, 84, 84, 80, 47, 49, 46, 49, 13, 10, 13, 10>>,  \* b"POST /../http_server.py HTTP/1.1\r\n\r\n"
    <<71, 69, 84, 32, 47, 32, 72, 84, 84, 80, 47, 49, 46, 49, 13, 10, 13, 10>> \o <<255>>  \* b"GET / HTTP/1.1\r\n\r\n"
}

----------------------------------------------------------------------------
(* The server *)

VARIABLES
    pc,               \* where server() is: "accept", "recv", "handle", "send",
                      \* "except", "close", or "returned"
    sockOpen,         \* the listening socket is open
    openConns,        \* accepted connections not yet closed
    nconn,            \* connections accepted so far
    sentBytes,        \* the bytes the peer of this connection sends in all
    wire,             \* the part of them that recv has not returned yet
    peerWillClose,    \* the peer closes its side once it has sent them
    request,          \* the text buffered so far
    emptyReads,       \* recv calls of this connection that returned b''
    resolverCalled,   \* response_path was called for this connection
    fsRead,           \* the entries whose content or listing it read
    fsSnap,           \* the filesystem as it was when the request was handled
                      \* (FsTwoFiles until then)
    response,         \* the response selected
    out,              \* the bytes written to the connection
    exc,              \* the exception that ended the handling, or "none"
    pendingInterrupt, \* a KeyboardInterrupt is propagating out of the handler
    failedBefore,     \* an earlier connection ended by an exception
    fs,               \* the filesystem
    sendCalls,        \* calls of conn.sendall on this connection
    lastInterrupt,    \* where the latest KeyboardInterrupt was delivered ("none",
                      \* "accept", "handling" or "except") and the number of
                      \* connections accepted by then
    bKind,            \* the response builder called on its own: "none", "ok",
                      \* "not_found" or "method_not_allowed"
    bBody,            \* the body handed to it
    bMime,            \* the mimetype handed to it
    bWire             \* the bytes it returned

vars == <<pc, sockOpen, openConns, nconn, sentBytes, wire, peerWillClose, request,
          emptyReads, resolverCalled, fsRead, fsSnap, response, out, exc,
          pendingInterrupt, failedBefore, fs, sendCalls, lastInterrupt,
          bKind, bBody, bMime, bWire>>

connVars == <<sentBytes, wire, peerWillClose, request, emptyReads, resolverCalled,
              fsRead, fsSnap, response, out, exc, sendCalls>>

builderVars == <<bKind, bBody, bMime, bWire>>

\* sock.bind(address); sock.listen(1): the server waits in its first accept
Init ==
    /\ pc = "accept"
    /\ sockOpen = TRUE
    /\ openConns = 0
    /\ nconn = 0
    /\ sentBytes = <<>>
    /\ wire = <<>>
    /\ peerWillClose = FALSE
    /\ request = <<>>
    /\ emptyReads = 0
    /\ resolverCalled = FALSE
    /\ fsRead = {}
    /\ fsSnap = FsTwoFiles
    /\ response = <<>>
    /\ out = <<>>
    /\ exc = "none"
    /\ pendingInterrupt = FALSE
    /\ failedBefore = FALSE
    /\ fs \in FileSystems
    /\ sendCalls = 0
    /\ lastInterrupt = [at |-> "none", conn |-> 0]
    /\ bKind = "none"
    /\ bBody = <<>>
    /\ bMime = <<>>
    /\ bWire = <<>>

\* the request buffer of a new connection, had it been set up once before the
\* accept loop
NewBuffer_Kept(old) == old

\* request = ''
NewBuffer(old) == <<>>

\* conn, addr = sock.accept(); request = ''
Accept ==
    /\ pc = "accept"
    /\ nconn < MaxConns
    /\ \E r \in Requests, c \in BOOLEAN :
          /\ sentBytes' = r
          /\ wire' = r
          /\ peerWillClose' = c
    /\ pc' = "recv"
    /\ openConns' = openConns + 1
    /\ nconn' = nconn + 1
    /\ request' = NewBuffer(request)
    /\ emptyReads' = 0
    /\ resolverCalled' = FALSE
    /\ fsRead' = {}
    /\ fsSnap' = FsTwoFiles
    /\ response' = <<>>
    /\ out' = <<>>
    /\ exc' = "none"
    /\ UNCHANGED <<sockOpen, pendingInterrupt, failedBefore, fs>>
    /\ sendCalls' = 0
    /\ UNCHANGED lastInterrupt
    /\ UNCHANGED builderVars

\* data = conn.recv(1024) returns the next n bytes; request += data.decode('utf8');
\* the loop ends when '\r\n\r\n' is in request
Recv ==
    /\ pc = "recv"
    /\ wire # <<>>
    /\ \E n \in 1..Min(RecvMax, Len(wire)) :
          LET data == SubSeq(wire, 1, n)
              d == Utf8Decode(data)
          IN  /\ wire' = SubSeq(wire, n + 1, Len(wire))
              /\ IF d.ok
                 THEN /\ request' = request \o d.text
                      /\ exc' = exc
                      /\ pc' = IF Contains(request', HeaderTerminator)
                               THEN "handle" ELSE "recv"
                 ELSE /\ request' = request
                      /\ exc' = "UnicodeDecodeError"
                      /\ pc' = "except"
    /\ UNCHANGED <<sockOpen, openConns, nconn, sentBytes, peerWillClose, emptyReads,
                   resolverCalled, fsRead, fsSnap, response, out, pendingInterrupt,
                   failedBefore, fs>>
    /\ UNCHANGED sendCalls
    /\ UNCHANGED lastInterrupt
    /\ UNCHANGED builderVars

\* the peer has closed its side and every byte was read: conn.recv(1024)
\* returns b'', request += '' changes nothing, and the loop goes on
RecvEof ==
    /\ pc = "recv"
    /\ wire = <<>>
    /\ peerWillClose
    /\ emptyReads < MaxEmptyReads
    /\ emptyReads' = emptyReads + 1
    /\ request' = request \o Utf8Decode(<<>>).text
    /\ pc' = IF Contains(request', HeaderTerminator) THEN "handle" ELSE "recv"
    /\ UNCHANGED <<sockOpen, openConns, nconn, sentBytes, wire, peerWillClose,
                   resolverCalled, fsRead, fsSnap, response, out, exc,
                   pendingInterrupt, failedBefore, fs>>
    /\ UNCHANGED sendCalls
    /\ UNCHANGED lastInterrupt
    /\ UNCHANGED builderVars

\* conn.recv(1024) raises (the peer reset the connection)
RecvError ==
    /\ pc = "recv"
    /\ exc' = "ConnectionError"
    /\ pc' = "except"
    /\ UNCHANGED <<sockOpen, openConns, nconn, sentBytes, wire, peerWillClose, request,
                   emptyReads, resolverCalled, fsRead, fsSnap, response, out,
                   pendingInterrupt, failedBefore, fs>>
    /\ UNCHANGED sendCalls
    /\ UNCHANGED lastInterrupt
    /\ UNCHANGED builderVars

\* the inner try with the path resolved from the second token before the
\* method is looked at
TryRespond_ResolveFirst(req, fsys) ==
    LET tokens == RequestLineTokens(req)
        p == parse_request(req)
        rp == response_path(fsys, IF Len(tokens) >= 2 THEN tokens[2] ELSE <<>>)
    IN  IF rp.exc = "NameError"
        THEN [exc |-> "none", response |-> response_not_found,
              resolved |-> TRUE, read |-> rp.read]
        ELSE IF rp.exc # "none"
        THEN [exc |-> rp.exc, response |-> <<>>, resolved |-> TRUE, read |-> rp.read]
        ELSE IF p.exc = "NotImplementedError"
        THEN [exc |-> "none", response |-> response_method_not_allowed,
              resolved |-> TRUE, read |-> rp.read]
        ELSE IF p.exc # "none"
        THEN [exc |-> p.exc, response |-> <<>>, resolved |-> TRUE, read |-> rp.read]
        ELSE [exc |-> "none", response |-> response_ok(rp.content, rp.mime_type),
              resolved |-> TRUE, read |-> rp.read]

\* the inner try of server(): parse_request, response_path and response_ok,
\* NotImplementedError answered by the 405 response and NameError by the 404
\* response; any other exception leaves the try (exc)
TryRespond(req, fsys) ==
    LET p == parse_request(req)
        rp == response_path(fsys, p.path)
    IN  IF p.exc = "NotImplementedError"
        THEN [exc |-> "none", response |-> response_method_not_allowed,
              resolved |-> FALSE, read |-> {}]
        ELSE IF p.exc # "none"
        THEN [exc |-> p.exc, response |-> <<>>, resolved |-> FALSE, read |-> {}]
        ELSE IF rp.exc = "NameError"
        THEN [exc |-> "none", response |-> response_not_found,
              resolved |-> TRUE, read |-> rp.read]
        ELSE IF rp.exc # "none"
        THEN [exc |-> rp.exc, response |-> <<>>, resolved |-> TRUE, read |-> rp.read]
        ELSE [exc |-> "none", response |-> response_ok(rp.content, rp.mime_type),
              resolved |-> TRUE, read |-> rp.read]

\* the request is complete: the inner try selects the response, or an exception
\* goes to the bare except
HandleRequest ==
    /\ pc = "handle"
    /\ LET t == TryRespond(request, fs)
       IN  /\ exc' = t.exc
           /\ response' = t.response
           /\ resolverCalled' = t.resolved
           /\ fsRead' = t.read
           /\ pc' = IF t.exc = "none" THEN "send" ELSE "except"
    /\ fsSnap' = fs
    /\ UNCHANGED <<sockOpen, openConns, nconn, sentBytes, wire, peerWillClose, request,
                   emptyReads, out, pendingInterrupt, failedBefore, fs>>
    /\ UNCHANGED sendCalls
    /\ UNCHANGED lastInterrupt
    /\ UNCHANGED builderVars

\* conn.sendall(response) inside the receive loop: after the response the
\* server reads the connection again
Send_KeepAlive ==
    /\ pc = "send"
    /\ out' = out \o response
    /\ pc' = "recv"
    /\ sendCalls' = sendCalls + 1
    /\ UNCHANGED <<sockOpen, openConns, nconn, sentBytes, wire, peerWillClose, request,
                   emptyReads, resolverCalled, fsRead, fsSnap, response, exc,
                   pendingInterrupt, failedBefore, fs, lastInterrupt, builderVars>>

\* conn.sendall(response)
Send ==
    /\ pc = "send"
    /\ out' = response
    /\ pc' = "close"
    /\ UNCHANGED <<sockOpen, openConns, nconn, sentBytes, wire, peerWillClose, request,
                   emptyReads, resolverCalled, fsRead, fsSnap, response, exc,
                   pendingInterrupt, failedBefore, fs>>
    /\ sendCalls' = sendCalls + 1
    /\ UNCHANGED lastInterrupt
    /\ UNCHANGED builderVars

\* conn.sendall(response) raises after it has written n bytes of the response,
\* n smaller than the response
SendError ==
    /\ pc = "send"
    /\ \E n \in 0..Min(Len(response) - 1, MaxPartialSend) : out' = SubSeq(response, 1, n)
    /\ exc' = "ConnectionError"
    /\ pc' = "except"
    /\ UNCHANGED <<sockOpen, openConns, nconn, sentBytes, wire, peerWillClose, request,
                   emptyReads, resolverCalled, fsRead, fsSnap, response,
                   pendingInterrupt, failedBefore, fs>>
    /\ sendCalls' = sendCalls + 1
    /\ UNCHANGED lastInterrupt
    /\ UNCHANGED builderVars

\* a KeyboardInterrupt is delivered inside the outer try of the connection: the
\* bare except catches it like any other exception
InterruptHandling ==
    /\ pc \in {"recv", "handle", "send"}
    /\ exc' = "KeyboardInterrupt"
    /\ pc' = "except"
    /\ UNCHANGED <<sockOpen, openConns, nconn, sentBytes, wire, peerWillClose, request,
                   emptyReads, resolverCalled, fsRead, fsSnap, response, out,
                   pendingInterrupt, failedBefore, fs>>
    /\ UNCHANGED sendCalls
    /\ lastInterrupt' = [at |-> "handling", conn |-> nconn]
    /\ UNCHANGED builderVars

\* the exception of a connection not caught in the loop: it reaches the outer
\* except, and server() returns
Except_Propagates ==
    /\ pc = "except"
    /\ pc' = "returned"
    /\ UNCHANGED <<sockOpen, openConns, nconn, connVars, pendingInterrupt,
                   failedBefore, fs, lastInterrupt, builderVars>>

\* except: traceback.print_exc()
Except ==
    /\ pc = "except"
    /\ pc' = "close"
    /\ UNCHANGED <<sockOpen, openConns, nconn, connVars, pendingInterrupt,
                   failedBefore, fs>>
    /\ UNCHANGED lastInterrupt
    /\ UNCHANGED builderVars

\* a KeyboardInterrupt is delivered during traceback.print_exc(): it leaves the
\* except clause, the finally clause still runs
InterruptExcept ==
    /\ pc = "except"
    /\ pendingInterrupt' = TRUE
    /\ pc' = "close"
    /\ UNCHANGED <<sockOpen, openConns, nconn, connVars, failedBefore, fs>>
    /\ lastInterrupt' = [at |-> "except", conn |-> nconn]
    /\ UNCHANGED builderVars

\* the finally clause closing the connection only when no exception was raised
CloseConn_OnSuccessOnly(n, e) == IF e = "none" THEN n - 1 ELSE n

\* finally: conn.close()
CloseConn(n, e) == n - 1

\* finally: conn.close(); then the next turn of the accept loop, or, with a
\* KeyboardInterrupt propagating, except KeyboardInterrupt: sock.close(); return
Close ==
    /\ pc = "close"
    /\ openConns' = CloseConn(openConns, exc)
    /\ failedBefore' = (failedBefore \/ exc # "none")
    /\ IF pendingInterrupt
       THEN /\ sockOpen' = FALSE
            /\ pc' = "returned"
       ELSE /\ sockOpen' = sockOpen
            /\ pc' = "accept"
    /\ UNCHANGED <<nconn, connVars, pendingInterrupt, fs>>
    /\ UNCHANGED lastInterrupt
    /\ UNCHANGED builderVars

\* a KeyboardInterrupt in sock.accept() caught by the second, bare except of the
\* loop: traceback.print_exc(), and server() returns with the socket open
InterruptAccept_LeavesSocketOpen ==
    /\ pc = "accept"
    /\ pc' = "returned"
    /\ lastInterrupt' = [at |-> "accept", conn |-> nconn]
    /\ UNCHANGED <<sockOpen, openConns, nconn, connVars, pendingInterrupt,
                   failedBefore, fs, builderVars>>

\* a KeyboardInterrupt is delivered while the server waits in sock.accept():
\* except KeyboardInterrupt: sock.close(); return
InterruptAccept ==
    /\ pc = "accept"
    /\ sockOpen' = FALSE
    /\ pc' = "returned"
    /\ UNCHANGED <<openConns, nconn, connVars, pendingInterrupt, failedBefore, fs>>
    /\ lastInterrupt' = [at |-> "accept", conn |-> nconn]
    /\ UNCHANGED builderVars

\* sock.accept() raises another exception: except: traceback.print_exc(), and
\* server() returns
AcceptError ==
    /\ pc = "accept"
    /\ pc' = "returned"
    /\ UNCHANGED <<sockOpen, openConns, nconn, connVars, pendingInterrupt,
                   failedBefore, fs>>
    /\ UNCHANGED lastInterrupt
    /\ UNCHANGED builderVars

\* the filesystem changes under the server; the server reads it in HandleRequest
\* only, so a change after that is left to the next connection
FsChange ==
    /\ pc \in {"accept", "recv", "handle"}
    /\ \E f \in FileSystems \ {fs} : fs' = f
    /\ UNCHANGED <<pc, sockOpen, openConns, nconn, connVars, pendingInterrupt,
                   failedBefore>>
    /\ UNCHANGED lastInterrupt
    /\ UNCHANGED builderVars

Next ==
    \/ Accept
    \/ Recv
    \/ RecvEof
    \/ RecvError
    \/ HandleRequest
    \/ Send
    \/ SendError
    \/ InterruptHandling
    \/ Except
    \/ InterruptExcept
    \/ Close
    \/ InterruptAccept
    \/ AcceptError
    \/ FsChange

Spec == Init /\ [][Next]_vars

----------------------------------------------------------------------------
(* The response builders on their own: each is called once, response_ok on   *)
(* a body and a mimetype drawn from the sequences over a letter, CR and LF.  *)

\* the sequences over S of length n at most
SeqsUpTo(S, n) == UNION {[1..k -> S] : k \in 0..n}

\* the bytes of the bodies and mimetypes: "x", "\r", "\n"
BuilderBytes == {120, 13, 10}

Bodies == SeqsUpTo(BuilderBytes, MaxBodyLen)

\* the mimetypes: those that hold no CRLF
Mimetypes == {m \in SeqsUpTo(BuilderBytes, MaxMimeLen) : ~Contains(m, Utf8Encode(CRLF))}

serverVars == <<pc, sockOpen, openConns, nconn, connVars, pendingInterrupt,
                failedBefore, fs, lastInterrupt>>

BuilderInit ==
    /\ pc = "accept"
    /\ sockOpen = TRUE
    /\ openConns = 0
    /\ nconn = 0
    /\ sentBytes = <<>>
    /\ wire = <<>>
    /\ peerWillClose = FALSE
    /\ request = <<>>
    /\ emptyReads = 0
    /\ resolverCalled = FALSE
    /\ fsRead = {}
    /\ fsSnap = FsTwoFiles
    /\ response = <<>>
    /\ out = <<>>
    /\ exc = "none"
    /\ pendingInterrupt = FALSE
    /\ failedBefore = FALSE
    /\ fs = FsTwoFiles
    /\ sendCalls = 0
    /\ lastInterrupt = [at |-> "none", conn |-> 0]
    /\ bKind = "none"
    /\ bBody \in Bodies
    /\ bMime \in Mimetypes
    /\ bWire = <<>>

\* response_ok(body=bBody, mimetype=bMime)
BuildOk ==
    /\ bKind = "none"
    /\ bKind' = "ok"
    /\ bWire' = response_ok(bBody, bMime)
    /\ UNCHANGED <<bBody, bMime, serverVars>>

\* response_not_found()
BuildNotFound ==
    /\ bKind = "none"
    /\ bKind' = "not_found"
    /\ bWire' = response_not_found
    /\ UNCHANGED <<bBody, bMime, serverVars>>

\* response_method_not_allowed()
BuildMethodNotAllowed ==
    /\ bKind = "none"
    /\ bKind' = "method_not_allowed"
    /\ bWire' = response_method_not_allowed
    /\ UNCHANGED <<bBody, bMime, serverVars>>

BuilderNext ==
    \/ BuildOk
    \/ BuildNotFound
    \/ BuildMethodNotAllowed

BuilderSpec == BuilderInit /\ [][BuilderNext]_vars

TypeOK ==
    /\ pc \in {"accept", "recv", "handle", "send", "except", "close", "returned"}
    /\ sockOpen \in BOOLEAN
    /\ openConns \in 0..MaxConns
    /\ nconn \in 0..MaxConns
    /\ sentBytes \in Requests \cup {<<>>}
    /\ fs \in FileSystems
    /\ \A f \in FileSystems : FsWellFormed(f)
    /\ exc \in {"none", "UnicodeDecodeError", "ValueError", "AttributeError",
                "PermissionError", "ConnectionError", "KeyboardInterrupt"}

----------------------------------------------------------------------------
(* What the claims speak of *)

\* the handling of the latest connection is over and the connection closed
Finished == pc \in {"accept", "returned"} /\ nconn > 0

\* neither recv nor sendall failed and no KeyboardInterrupt was delivered
\* while the latest connection was handled
NoFault == exc \notin {"ConnectionError", "KeyboardInterrupt"} /\ ~pendingInterrupt

\* the buffered text holds the header terminator
HeadersComplete == Contains(request, HeaderTerminator)

\* the space-separated tokens of the buffered request line
Tokens == RequestLineTokens(request)

\* a request line of three tokens, the first of them GET
WellFormedGet == HeadersComplete /\ Len(Tokens) = 3 /\ Tokens[1] = GET

\* the entry the path token named when the request was handled
Target == Lookup(fsSnap, Directory \o Tokens[2])

\* b"HTTP/1.1 405 Method Not Allowed\r\n\r\nYou can't do that on this server!"
Wire405 == <<72, 84, 84, 80, 47, 49, 46, 49, 32, 52, 48, 53, 32, 77, 101, 116, 104, 111, 100, 32, 78, 111, 116, 32, 65, 108, 108, 111, 119, 101, 100, 13, 10, 13, 10, 89, 111, 117, 32, 99, 97, 110, 39, 116, 32, 100, 111, 32, 116, 104, 97, 116, 32, 111, 110, 32, 116, 104, 105, 115, 32, 115, 101, 114, 118, 101, 114, 33>>

\* b"HTTP/1.1 404 Page Not Found\r\n\r\nSorry, the page that you're requesting does not exist."
Wire404 == <<72, 84, 84, 80, 47, 49, 46, 49, 32, 52, 48, 52, 32, 80, 97, 103, 101, 32, 78, 111, 116, 32, 70, 111, 117, 110, 100, 13, 10, 13, 10, 83, 111, 114, 114, 121, 44, 32, 116, 104, 101, 32, 112, 97, 103, 101, 32, 116, 104, 97, 116, 32, 121, 111, 117, 39, 114, 101, 32, 114, 101, 113, 117, 101, 115, 116, 105, 110, 103, 32, 100, 111, 101, 115, 32, 110, 111, 116, 32, 101, 120, 105, 115, 116, 46>>

\* a response read back: the status line, the header lines, and the body after
\* the first blank line
ParseResponse(bytes) ==
    LET i == Find(bytes, Utf8Encode(HeaderTerminator))
        head == IF i = 0 THEN bytes ELSE SubSeq(bytes, 1, i - 1)
        lines == Split(head, Utf8Encode(CRLF))
    IN  [complete |-> i # 0,
         status |-> lines[1],
         headers |-> Tail(lines),
         body |-> IF i = 0 THEN <<>> ELSE SubSeq(bytes, i + 4, Len(bytes))]

\* the entry lies in the served root
InsideWebroot(key) == Len(key) >= Len(WebrootKey) /\ SubSeq(key, 1, Len(WebrootKey)) = WebrootKey

----------------------------------------------------------------------------
(* C1 *)

\* C1: a request with complete headers whose request line has three tokens, the
\* first not exactly GET, is answered by the 405 response whatever its path
\* token, and the response is written before the connection is closed: with the
\* connection still open at the finally clause the 405 response is on the
\* wire, and so it is once the connection is closed (no recv or sendall
\* failure and no interrupt having struck the connection).
C1_NonGetAnswered405 ==
    (/\ pc \in {"close", "accept", "returned"}
     /\ nconn > 0
     /\ NoFault
     /\ HeadersComplete
     /\ Len(Tokens) = 3
     /\ Tokens[1] # GET)
    => /\ out = Wire405
       /\ openConns = (IF pc = "close" THEN 1 ELSE 0)

\* a POST for a missing path was answered 405 and its connection closed
C1_Witness ==
    /\ Finished
    /\ NoFault
    /\ HeadersComplete
    /\ Tokens = <<<<80, 79, 83, 84>>, <<47, 109, 105, 115, 115, 105, 110, 103, 46, 116, 120, 116>>, <<72, 84, 84, 80, 47, 49, 46, 49>>>>  \* "POST", "/missing.txt", "HTTP/1.1"
    /\ out = Wire405
    /\ openConns = 0

----------------------------------------------------------------------------
(* C2 *)

\* C2: a request with complete headers whose request line does not split into
\* exactly three tokens is answered by the 405 response before the connection
\* is closed.
C2_MalformedAnswered405 ==
    (Finished /\ NoFault /\ HeadersComplete /\ Len(Tokens) # 3) => out = Wire405

----------------------------------------------------------------------------
(* C3 *)

\* C3: a well-formed GET whose path, appended to the served root, names no
\* existing entry is answered by the 404 response with the fixed message as its
\* body, and no file content or listing is read (no recv or sendall failure and
\* no interrupt having struck the connection).
C3_MissingAnswered404 ==
    (Finished /\ NoFault /\ WellFormedGet /\ ~Target.found)
    => /\ out = Wire404
       /\ ParseResponse(out).status = NotFoundStatusLine
       /\ ParseResponse(out).body = NotFoundText
       /\ fsRead = {}

\* GET /missing.txt was answered 404
C3_Witness ==
    /\ Finished
    /\ WellFormedGet
    /\ Tokens[2] = <<47, 109, 105, 115, 115, 105, 110, 103, 46, 116, 120, 116>>  \* "/missing.txt"
    /\ ~Target.found
    /\ out = Wire404
    /\ fsRead = {}

----------------------------------------------------------------------------
(* C4 *)

\* C4: no 200 response carries the content or the listing of an entry outside
\* the served root: whenever the 200 status line was written, every entry read
\* for it lies in webroot.
C4_Containment ==
    (nconn > 0 /\ ParseResponse(out).status = OkStatusLine)
    => \A key \in fsRead : InsideWebroot(key)

----------------------------------------------------------------------------
(* C5 *)

\* the path token named an existing regular file whose name has an extension
\* of types_map
TargetIsTypedFile ==
    /\ Target.found
    /\ fsSnap[Target.key].kind = "file"
    /\ types_map(splitext(Target.key[Len(Target.key)])).known

\* the 200 response with the content of the file named and the type of its
\* extension
FileServed ==
    LET r == ParseResponse(out)
        name == Target.key[Len(Target.key)]
    IN  /\ r.complete
        /\ r.status = OkStatusLine
        /\ r.headers = <<ContentTypePrefix \o Utf8Encode(types_map(splitext(name)).type)>>
        /\ r.body = fsSnap[Target.key].content

----------------------------------------------------------------------------
(* C6 *)

\* the path token named an existing directory
TargetIsDir == Target.found /\ fsSnap[Target.key].kind = "dir"

\* the 200 response of type text/plain whose body is the names of the
\* directory named, in the order of enumeration, CRLF between them and none
\* after the last; empty for an empty directory
ListingServed ==
    LET r == ParseResponse(out)
        names == fsSnap[Target.key].names
        crlf == Utf8Encode(CRLF)
    IN  /\ r.complete
        /\ r.status = OkStatusLine
        /\ r.headers = <<ContentTypePrefix \o TextPlain>>
        /\ IF names = <<>>
           THEN r.body = <<>>
           ELSE Split(r.body, crlf) = [i \in 1..Len(names) |-> Utf8Encode(names[i])]

----------------------------------------------------------------------------
(* C7 *)

\* C7: at most one connection is open at any time, and when the server waits in
\* accept or server() has returned every accepted connection is closed,
\* whichever way its handling ended.
C7_ConnectionsClosed ==
    /\ openConns <= 1
    /\ pc \in {"accept", "returned"} => openConns = 0

\* the second connection was closed after an exception ended its handling
C7_Witness ==
    /\ pc = "accept"
    /\ nconn = 2
    /\ failedBefore
    /\ exc \in {"ValueError", "AttributeError", "PermissionError", "UnicodeDecodeError"}
    /\ openConns = 0

----------------------------------------------------------------------------
(* C8 *)

\* C8: once recv has returned no data before the header terminator was
\* received, the handler is no longer reading headers.
C8_PeerCloseLeavesRecv ==
    (emptyReads > 0 /\ ~HeadersComplete) => pc # "recv"

----------------------------------------------------------------------------
(* C9 *)

\* what the inner try yields on the bytes this connection's peer sent, against
\* the filesystem as it was when the request was handled
OwnOutcome == TryRespond(Utf8Decode(sentBytes).text, fsSnap)

\* the outcome of a connection is that of its own request
AnsweredOnItsOwn ==
    (/\ pc = "close"
     /\ NoFault
     /\ HeadersComplete
     /\ Utf8Decode(sentBytes).ok)
    => /\ exc = OwnOutcome.exc
       /\ out = OwnOutcome.response

\* an exception goes through the bare except to the finally clause, and from
\* there, unless a KeyboardInterrupt is propagating, back to accept with the
\* listening socket open
BackToAccept ==
    /\ pc = "except" => pc' = "close"
    /\ (pc = "close" /\ ~pendingInterrupt) => (pc' = "accept" /\ sockOpen')

\* C9: an exception raised while a connection is handled never ends the accept
\* loop: the loop is back in accept after the connection is closed, and every
\* connection, also one that follows a failed connection, is answered as its
\* own request and the filesystem decide.
C9_FaultIsolation == [][BackToAccept]_vars /\ []AnsweredOnItsOwn

\* after a connection that ended by an exception, a well-formed GET was
\* answered 200
C9_Witness ==
    /\ pc = "close"
    /\ nconn = 2
    /\ failedBefore
    /\ sockOpen
    /\ exc = "none"
    /\ WellFormedGet
    /\ ParseResponse(out).status = OkStatusLine
    /\ out = OwnOutcome.response

----------------------------------------------------------------------------
(* C10 *)

\* C10: a well-formed GET whose path names an existing file of unknown type, or
\* one that may not be read, gets a response before the connection is closed.
C10_FallbackResponse ==
    (/\ Finished
     /\ NoFault
     /\ WellFormedGet
     /\ Target.found
     /\ fsSnap[Target.key].kind = "file"
     /\ \/ ~guess_type(Directory \o Tokens[2]).known
        \/ ~fsSnap[Target.key].readable)
    => ParseResponse(out).complete

----------------------------------------------------------------------------
(* C11 *)

\* the status lines the server has
StatusLines == {OkStatusLine, NotFoundStatusLine, MethodNotAllowedStatusLine}

\* sendall was called at most once on the connection, and only with a complete
\* header block buffered and a response of one of the three status lines;
\* what is on the wire is that response, or a beginning of it when sendall
\* failed, and nothing when sendall was not called
OneResponse ==
    /\ sendCalls <= 1
    /\ sendCalls = 0 => out = <<>>
    /\ sendCalls = 1 =>
          /\ HeadersComplete
          /\ ParseResponse(response).status \in StatusLines
          /\ Len(out) <= Len(response)
          /\ out = SubSeq(response, 1, Len(out))
          /\ exc = "none" => out = response

\* once sendall was called, no step of the connection reads from it or writes
\* to it: the next step that does is the accept of another connection
NothingAfterResponse ==
    (sendCalls = 1 /\ pc # "accept") => UNCHANGED <<wire, request, out, sendCalls>>

\* C11: on every connection the server writes at most one response, with the
\* status line 200 OK, 404 Page Not Found or 405 Method Not Allowed, only after
\* a complete header block was buffered, and it reads and writes nothing more
\* on the connection before it closes it.
C11_SingleResponse == []OneResponse /\ [][NothingAfterResponse]_vars

\* a request with a body behind the header terminator was answered 200 with
\* the body still unread, and the connection closed
C11_Witness ==
    /\ Finished
    /\ sendCalls = 1
    /\ wire # <<>>
    /\ exc = "none"
    /\ ParseResponse(out).status = OkStatusLine
    /\ openConns = 0

----------------------------------------------------------------------------
(* C12 *)

\* after a KeyboardInterrupt delivered in accept, server() has returned with
\* the listening socket closed, no connection open and no connection accepted
\* since
StoppedByInterrupt ==
    lastInterrupt.at = "accept"
    => /\ pc = "returned"
       /\ ~sockOpen
       /\ openConns = 0
       /\ nconn = lastInterrupt.conn

\* once server() has returned no connection is accepted
NoAcceptAfterReturn == pc = "returned" => (pc' = "returned" /\ nconn' = nconn)

\* C12: a manual interrupt delivered while the loop waits in accept closes the
\* listening socket and makes server() return, and no connection is accepted
\* after it.
C12_InterruptInAccept == []StoppedByInterrupt /\ [][NoAcceptAfterReturn]_vars

\* the interrupt came in accept after one connection was handled; server()
\* has returned and the listening socket is closed
C12_Witness ==
    /\ lastInterrupt = [at |-> "accept", conn |-> 1]
    /\ pc = "returned"
    /\ ~sockOpen
    /\ nconn = 1

----------------------------------------------------------------------------
(* C13 *)

\* the status code of a status line: its second space-separated token
StatusCode(line) ==
    LET tokens == Split(line, Utf8Encode(SP))
    IN  IF Len(tokens) >= 2 THEN tokens[2] ELSE <<>>

\* the values of the Content-Type header lines among headers, in their order
RECURSIVE ContentTypes(_)
ContentTypes(headers) ==
    IF headers = <<>> THEN <<>>
    ELSE LET h == Head(headers)
         IN  (IF MatchAt(h, ContentTypePrefix, 1)
              THEN <<SubSeq(h, Len(ContentTypePrefix) + 1, Len(h))>>
              ELSE <<>>) \o ContentTypes(Tail(headers))

----------------------------------------------------------------------------
(* C14 *)

----------------------------------------------------------------------------
(* C15 *)

\* C15: after a KeyboardInterrupt delivered while a connection was handled, no
\* further connection is accepted, and once that connection is finished it is
\* closed, the listening socket is closed and server() has returned.
C15_InterruptEndsLoopAfterConnection ==
    lastInterrupt.at \in {"handling", "except"}
    => /\ nconn = lastInterrupt.conn
       /\ pc \in {"accept", "returned"} =>
             /\ pc = "returned"
             /\ ~sockOpen
             /\ openConns = 0

----------------------------------------------------------------------------
(* C16 *)

\* C16: response_path is called only for a request that parse_request
\* accepted; for a request line of three tokens whose method is not GET it is
\* not called and no entry is read, whatever the path names, and the answer is
\* the 405 response (no recv or sendall failure and no interrupt having struck
\* the connection).
C16_ParseBeforeResolve ==
    /\ resolverCalled => WellFormedGet
    /\ fsRead # {} => resolverCalled
    /\ (nconn > 0 /\ HeadersComplete /\ Len(Tokens) = 3 /\ Tokens[1] # GET) =>
          /\ ~resolverCalled
          /\ fsRead = {}
          /\ (Finished /\ NoFault) => out = Wire405

\* a POST for the server's own source file, outside the served root and
\* existing, was answered 405 without the resolver being called
C16_Witness ==
    /\ Finished
    /\ NoFault
    /\ HeadersComplete
    /\ Tokens = <<<<80, 79, 83, 84>>, <<47, 46, 46, 47, 104, 116, 116, 112, 95, 115, 101, 114, 118, 101, 114, 46, 112, 121>>, <<72, 84, 84, 80, 47, 49, 46, 49>>>>  \* "POST", "/../http_server.py", "HTTP/1.1"
    /\ exists(fsSnap, Directory \o Tokens[2])
    /\ ~resolverCalled
    /\ fsRead = {}
    /\ out = Wire405

----------------------------------------------------------------------------
(* C17 *)

\* the bytes the peer sent hold the header terminator
SentComplete == Contains(sentBytes, Utf8Encode(HeaderTerminator))

\* the bytes the peer sent up to the end of the header terminator
SentHead ==
    SubSeq(sentBytes, 1,
           Find(sentBytes, Utf8Encode(HeaderTerminator)) + Len(HeaderTerminator) - 1)

\* the bytes the peer sent before the first CRLF
SentRequestLine == Split(sentBytes, Utf8Encode(CRLF))[1]

\* what a request that is the given request line and the header terminator
\* alone is answered against filesystem fsys
AnswerToLine(line, fsys) ==
    TryRespond(Utf8Decode(line).text \o HeaderTerminator, fsys).response

\* C17: the bytes written to a connection are what its request line alone is
\* answered, against the filesystem of that moment, whatever follows the
\* request line; stated for requests whose bytes up to the header terminator
\* are ASCII, so that only what follows the terminator is at will.
C17_RequestLineDecides ==
    (/\ Finished
     /\ NoFault
     /\ SentComplete
     /\ \A i \in 1..Len(SentHead) : SentHead[i] < 128)
    => \E f \in FileSystems : out = AnswerToLine(SentRequestLine, f)

----------------------------------------------------------------------------
(* C18 *)

\* C18: for bytes that hold the header terminator and are UTF-8 text, the
\* bytes written to the connection are what the same bytes are answered when
\* one recv returns them all, however recv splits them.
C18_ChunkingIndependent ==
    (/\ Finished
     /\ NoFault
     /\ SentComplete
     /\ Utf8Decode(sentBytes).ok)
    => \E f \in FileSystems :
          out = TryRespond(Utf8Decode(sentBytes).text, f).response

=============================================================================
